---- MODULE Spec2Model ----
\* InternViTAdapter (mmrotate/models/backbones/vit_adapter.py): the constructor's
\* configuration and the forward pass, one action per stage of forward.
\*
\* Tensors are modelled by what forward can observe of them:
\*   - a spatial sequence is a sequence of position tags <<level, index, embed row, version>>;
\*     the embed row is -1 until _add_level_embed adds a row, the version counts the
\*     interaction blocks that rewrote the position;
\*   - a per-level tensor is [bound, seq, shape, terms]: is the local assigned, its
\*     positions, its shape without the channel dimension (<<bs, n>> flattened,
\*     <<bs, h, w>> spatial), and the operations applied to it after the split.
EXTENDS Integers, Sequences, FiniteSets, TLC

\* ---------------------------------------------------------------- bounds
MaxGrid == 3
MaxGroups == 2
MaxLayers == 3
MaxBlocks == 2
MaxLen == 3

VARIABLES
    pc,                  \* position: "new", "ready", a stage of forward, "returned", "raised"
    num_layers,          \* self.num_layers
    interaction_indexes, \* self.interaction_indexes, each entry <<first, last>>
    add_vit_feature,     \* self.add_vit_feature
    out_indices,         \* self.out_indices
    use_final_norm,      \* self.use_final_norm
    only_feat_out,       \* self.only_feat_out
    modules,             \* optional sub-modules allocated by __init__
    datasets,            \* forward's argument: one batch size per dataset group
    x,                   \* forward's x: the input, then the token stream
    deform,              \* deform_inputs1, deform_inputs2
    spm_out,             \* what self.spm(x) returned
    c1, c2, c3, c4,      \* forward's locals
    c,                   \* the concatenated spatial sequence
    H, W, bs,            \* returned by embeddings.forward_adapter
    i,                   \* index of the interaction loop
    ret,                 \* what forward returned or raised
    invoked,             \* optional sub-modules called during this forward
    handed,              \* layer slices handed to the blocks during this forward
    blockio              \* per block: the pair it received and the pair it returned

cfgvars == <<num_layers, interaction_indexes, add_vit_feature, out_indices,
             use_final_norm, only_feat_out, modules>>
callvars == <<datasets, x, deform, spm_out, c1, c2, c3, c4, c, H, W, bs, i, ret,
              invoked, handed, blockio>>
vars == <<pc, cfgvars, callvars>>

\* ---------------------------------------------------------------- helpers
Min(a, b) == IF a < b THEN a ELSE b

RECURSIVE SumSeq(_)
SumSeq(s) == IF s = <<>> THEN 0 ELSE Head(s) + SumSeq(Tail(s))

\* Python's s[lo:hi] for 0 <= lo, 0 <= hi: both ends clamp to the length.
PySlice(s, lo, hi) == SubSeq(s, Min(lo, Len(s)) + 1, Min(hi, Len(s)))

NoTensor == [bound |-> FALSE, seq |-> <<>>, shape |-> <<>>, terms |-> <<>>]
NoX == [form |-> "none", bs |-> 0, gh |-> 0, gw |-> 0, hist |-> <<>>]
NoRet == [kind |-> "none", feats |-> <<>>, tok |-> NoX, err |-> ""]

Level(lvl, n) == [j \in 1..n |-> <<lvl, j, -1, 0>>]
Flat(lvl, b, n) == [bound |-> TRUE, seq |-> Level(lvl, n), shape |-> <<b, n>>, terms |-> <<>>]

\* ---------------------------------------------------------------- __init__
\* lines 56-65: the optional heads allocated by the constructor.
AllocModulesNoNorm1(oi, ufn) ==
    (IF Len(oi) = 4 THEN {"up"} ELSE {})
    \cup (IF ufn THEN {"norm2", "norm3", "norm4"} ELSE {})
AllocModules(oi, ufn) ==
    (IF Len(oi) = 4
       THEN {"up"} \cup (IF ufn THEN {"norm1"} ELSE {})
       ELSE {})
    \cup (IF ufn THEN {"norm2", "norm3", "norm4"} ELSE {})

\* The constructor: it stores its arguments and allocates the heads; it checks
\* neither interaction_indexes against the layer stack nor use_final_norm
\* against out_indices.
Adapter_init(nl, ii, avf, oi, ufn, ofo) ==
    /\ pc = "new"
    /\ num_layers' = nl
    /\ interaction_indexes' = ii
    /\ add_vit_feature' = avf
    /\ out_indices' = oi
    /\ use_final_norm' = ufn
    /\ only_feat_out' = ofo
    /\ modules' = AllocModules(oi, ufn)
    /\ pc' = "ready"
    /\ UNCHANGED callvars

Ranges == (0..(MaxLayers - 1)) \X (0..(MaxLayers - 1))
AllLists == UNION {[1..n -> Ranges] : n \in 1..MaxBlocks}

\* interaction_indexes as the configurations write it: contiguous ascending
\* ranges that cover layers 0..nl-1.
IsPartition(ii, nl) ==
    /\ Len(ii) >= 1
    /\ ii[1][1] = 0
    /\ ii[Len(ii)][2] = nl - 1
    /\ \A k \in 1..Len(ii) : ii[k][1] <= ii[k][2]
    /\ \A k \in 1..(Len(ii) - 1) : ii[k + 1][1] = ii[k][2] + 1

OutIndices == {<<0, 1, 2, 3>>, <<1, 2, 3>>}

\* Construction with a well-formed interaction_indexes and any flags.
Construct ==
    /\ pc = "new"
    /\ \E nl \in 2..MaxLayers, ii \in AllLists, oi \in OutIndices,
          avf \in BOOLEAN, ufn \in BOOLEAN, ofo \in BOOLEAN :
         /\ IsPartition(ii, nl)
         /\ Adapter_init(nl, ii, avf, oi, ufn, ofo)

\* Construction with any interaction_indexes and the signature's default flags.
ConstructAny ==
    /\ pc = "new"
    /\ \E nl \in 2..MaxLayers, ii \in AllLists :
         Adapter_init(nl, ii, TRUE, <<0, 1, 2, 3>>, TRUE, FALSE)

\* ---------------------------------------------------------------- forward
\* A call of forward: x is one tensor, or one tensor per dataset group.
Call ==
    /\ pc \in {"ready", "returned", "raised"}
    /\ \E ds \in UNION {[1..n -> {1}] : n \in 1..MaxGroups},
          gh \in 2..MaxGrid, gw \in 2..MaxGrid :
        /\ datasets' = ds
        /\ x' = [form |-> IF Len(ds) > 1 THEN "list" ELSE "image",
                 bs |-> IF Len(ds) > 1 THEN 0 ELSE ds[1],
                 gh |-> gh, gw |-> gw, hist |-> <<>>]
    /\ deform' = <<>>
    /\ spm_out' = <<>>
    /\ c1' = NoTensor /\ c2' = NoTensor /\ c3' = NoTensor /\ c4' = NoTensor
    /\ c' = <<>>
    /\ H' = 0 /\ W' = 0 /\ bs' = 0
    /\ i' = 0
    /\ ret' = NoRet
    /\ invoked' = {}
    /\ handed' = <<>>
    /\ blockio' = <<>>
    /\ pc' = "consolidate"
    /\ UNCHANGED cfgvars

\* lines 102-103
Consolidate ==
    /\ pc = "consolidate"
    /\ x' = IF Len(datasets) > 1
              THEN [x EXCEPT !.form = "image", !.bs = SumSeq(datasets)]
              ELSE x
    /\ pc' = "deform"
    /\ UNCHANGED <<cfgvars, datasets, deform, spm_out, c1, c2, c3, c4, c, H, W, bs, i,
                   ret, invoked, handed, blockio>>

\* lines 104-105: the metadata depends on the input's spatial size alone.
DeformInputs ==
    /\ pc = "deform"
    /\ deform' = <<x.gh, x.gw>>
    /\ pc' = "spm"
    /\ UNCHANGED <<cfgvars, datasets, x, spm_out, c1, c2, c3, c4, c, H, W, bs, i,
                   ret, invoked, handed, blockio>>

\* SpatialPriorModule: C1 as a map at 4x the token grid, C2, C3, C4 flattened
\* at 2x, 1x and 0.5x; r4h, r4w are the halved sides of C4.
SpmOut(xx, oi, r4h, r4w) ==
    LET l2 == Flat(2, xx.bs, (2 * xx.gh) * (2 * xx.gw))
        l3 == Flat(3, xx.bs, xx.gh * xx.gw)
        l4 == Flat(4, xx.bs, r4h * r4w)
        l1 == [bound |-> TRUE, seq |-> <<>>,
               shape |-> <<xx.bs, 4 * xx.gh, 4 * xx.gw>>, terms |-> <<>>]
    IN IF Len(oi) = 4 THEN <<l1, l2, l3, l4>> ELSE <<l2, l3, l4>>

\* The halved side of an odd side: rounded down or up.
Halves(n) == {n \div 2, (n + 1) \div 2}

\* lines 107-110
Spm ==
    /\ pc = "spm"
    /\ \E r4h \in Halves(x.gh), r4w \in Halves(x.gw) :
        LET o == SpmOut(x, out_indices, r4h, r4w) IN
        /\ spm_out' = o
        /\ IF Len(out_indices) = 4
             THEN c1' = o[1] /\ c2' = o[2] /\ c3' = o[3] /\ c4' = o[4]
             ELSE c1' = c1 /\ c2' = o[1] /\ c3' = o[2] /\ c4' = o[3]
    /\ pc' = "embed"
    /\ UNCHANGED <<cfgvars, datasets, x, deform, c, H, W, bs, i, ret, invoked, handed,
                   blockio>>

\* lines 95-99: row k of level_embed is added to every position.
AddEmbed(t, row) == [t EXCEPT !.seq = [j \in 1..Len(t.seq) |->
                        <<t.seq[j][1], t.seq[j][2], row, t.seq[j][4]>>]]
add_level_embed(a2, a3, a4) == <<AddEmbed(a2, 0), AddEmbed(a3, 1), AddEmbed(a4, 2)>>

\* line 113: torch.cat([c2, c3, c4], dim=1)
Cat(a2, a3, a4) == a2.seq \o a3.seq \o a4.seq

\* lines 112-113
EmbedCat ==
    /\ pc = "embed"
    /\ LET e == add_level_embed(c2, c3, c4) IN
        /\ c2' = e[1] /\ c3' = e[2] /\ c4' = e[3]
        /\ c' = Cat(e[1], e[2], e[3])
    /\ pc' = "patch"
    /\ UNCHANGED <<cfgvars, datasets, x, deform, spm_out, c1, H, W, bs, i, ret, invoked,
                   handed, blockio>>

\* line 115: embeddings.forward_adapter returns the tokens and their grid.
PatchEmbed ==
    /\ pc = "patch"
    /\ x' = [x EXCEPT !.form = "tokens"]
    /\ H' = x.gh /\ W' = x.gw /\ bs' = x.bs
    /\ i' = 0
    /\ pc' = "loop"
    /\ UNCHANGED <<cfgvars, datasets, deform, spm_out, c1, c2, c3, c4, c, ret, invoked,
                   handed, blockio>>

\* self.layers, the backbone's layer stack
layers == [k \in 1..num_layers |-> k - 1]

\* line 119: self.layers[indexes[0]:indexes[-1] + 1]
LayerSlice(indexes) == PySlice(layers, indexes[1], indexes[2] + 1)

\* InteractionBlock.forward: runs the given layers on the tokens and rewrites
\* every spatial position; both outputs keep their lengths.
BlockForward(xx, cc, ls) ==
    <<[xx EXCEPT !.hist = Append(@, ls)],
      [j \in 1..Len(cc) |-> <<cc[j][1], cc[j][2], cc[j][3], cc[j][4] + 1>>]>>

\* lines 119-120: the block receives the current x and c.
BlockArgsStale(xx, cc, a2, a3, a4) == <<xx, Cat(a2, a3, a4)>>
BlockArgs(xx, cc, a2, a3, a4) == <<xx, cc>>

\* lines 117-120, one iteration
Interact ==
    /\ pc = "loop"
    /\ i < Len(interaction_indexes)
    /\ LET indexes == interaction_indexes[i + 1]
           ls == LayerSlice(indexes)
           args == BlockArgs(x, c, c2, c3, c4)
           out == BlockForward(args[1], args[2], ls)
       IN /\ x' = out[1]
          /\ c' = out[2]
          /\ handed' = Append(handed, ls)
          /\ blockio' = Append(blockio, [xin |-> args[1], cin |-> args[2],
                                         xout |-> out[1], cout |-> out[2]])
    /\ i' = i + 1
    /\ UNCHANGED <<pc, cfgvars, datasets, deform, spm_out, c1, c2, c3, c4, H, W, bs, ret,
                   invoked>>

\* line 117: the loop is exhausted
LoopExit ==
    /\ pc = "loop"
    /\ i = Len(interaction_indexes)
    /\ pc' = "split"
    /\ UNCHANGED <<cfgvars, callvars>>

\* lines 123-125: c2 and c3 are reassigned before their sizes are read again.
SplitCShifted(cc, s2, s3) ==
    LET n2 == PySlice(cc, 0, Len(s2))
        n3 == PySlice(cc, Len(n2), Len(s3))
        n4 == PySlice(cc, Len(n2) + Len(n3), Len(cc))
    IN <<n2, n3, n4>>
SplitC(cc, s2, s3) ==
    LET n2 == PySlice(cc, 0, Len(s2))
        n3 == PySlice(cc, Len(n2), Len(n2) + Len(s3))
        n4 == PySlice(cc, Len(n2) + Len(n3), Len(cc))
    IN <<n2, n3, n4>>

\* Tensor.view: the element counts must agree (the channel dimension cancels).
ViewOk(b, n, shape) == b * n = shape[1] * shape[2] * shape[3]

\* lines 127-129: the shapes the three segments are viewed as
ViewShapes(b, h, w) == <<<<b, h * 2, w * 2>>, <<b, h, w>>, <<b, h \div 2, w \div 2>>>>

\* lines 123-129; a view that does not fit raises and ends the call.
SplitReshape ==
    /\ pc = "split"
    /\ LET s == SplitC(c, c2.seq, c3.seq)
           b == c2.shape[1]
           t == ViewShapes(bs, H, W)
           ok2 == ViewOk(b, Len(s[1]), t[1])
           ok3 == ok2 /\ ViewOk(b, Len(s[2]), t[2])
           ok4 == ok3 /\ ViewOk(b, Len(s[3]), t[3])
           Piece(k, ok) == [bound |-> TRUE, seq |-> s[k],
                            shape |-> IF ok THEN t[k] ELSE <<b, Len(s[k])>>,
                            terms |-> <<>>]
       IN /\ c2' = Piece(1, ok2)
          /\ c3' = Piece(2, ok3)
          /\ c4' = Piece(3, ok4)
          /\ IF ok4
               THEN pc' = "up" /\ ret' = ret
               ELSE pc' = "raised" /\ ret' = [NoRet EXCEPT !.kind = "raise", !.err = "view"]
    /\ UNCHANGED <<cfgvars, datasets, x, deform, spm_out, c1, c, H, W, bs, i, invoked,
                   handed, blockio>>

\* lines 130-131: c1 = self.up(c2) + c1; up doubles both sides.
UpAdd ==
    /\ pc = "up"
    /\ IF Len(out_indices) = 4
         THEN LET u == <<c2.shape[1], 2 * c2.shape[2], 2 * c2.shape[3]>> IN
              /\ invoked' = invoked \cup {"up"}
              /\ IF u = c1.shape
                   THEN /\ c1' = [c1 EXCEPT !.terms = Append(@, "up(c2)")]
                        /\ pc' = "fuse" /\ ret' = ret
                   ELSE /\ c1' = c1
                        /\ pc' = "raised"
                        /\ ret' = [NoRet EXCEPT !.kind = "raise", !.err = "add"]
         ELSE /\ pc' = "fuse"
              /\ UNCHANGED <<c1, invoked, ret>>
    /\ UNCHANGED <<cfgvars, datasets, x, deform, spm_out, c2, c3, c4, c, H, W, bs, i,
                   handed, blockio>>

\* lines 136-138, 142-143: the token map interpolated to a level (x3 itself at C3)
VitTerm(lvl) == CASE lvl = 1 -> "vit*4" [] lvl = 2 -> "vit*2"
                  [] lvl = 3 -> "vit*1" [] lvl = 4 -> "vit*0.5"

\* lines 133-144: the levels that get the token map added
FuseLevelsAlways(avf, oi) == IF Len(oi) = 4 THEN {1, 2, 3, 4} ELSE {2, 3, 4}
FuseLevels(avf, oi) ==
    IF avf THEN (IF Len(oi) = 4 THEN {1, 2, 3, 4} ELSE {2, 3, 4}) ELSE {}

Fused(t, lvl, lvls) == IF lvl \in lvls THEN [t EXCEPT !.terms = Append(@, VitTerm(lvl))] ELSE t

\* lines 133-144
Fusion ==
    /\ pc = "fuse"
    /\ LET lvls == FuseLevels(add_vit_feature, out_indices) IN
        /\ c1' = Fused(c1, 1, lvls)
        /\ c2' = Fused(c2, 2, lvls)
        /\ c3' = Fused(c3, 3, lvls)
        /\ c4' = Fused(c4, 4, lvls)
    /\ pc' = "out"
    /\ UNCHANGED <<cfgvars, datasets, x, deform, spm_out, c, H, W, bs, i, ret, invoked,
                   handed, blockio>>

\* t.float().contiguous() and self.normK(t.float()).contiguous()
Float(t) == [t EXCEPT !.terms = Append(@, "float")]
Norm(t, name) == [t EXCEPT !.terms = @ \o <<"float", name>>]

\* lines 146-159: the norm layers the return path calls
NormsUsed(ufn, oi) ==
    IF ufn
      THEN (IF Len(oi) = 4 THEN {"norm1"} ELSE {}) \cup {"norm2", "norm3", "norm4"}
      ELSE {}

\* lines 146-164: what forward returns, or the error of reading an unassigned c1
FinalOutputTuple(ufn, oi, ofo, t1, t2, t3, t4, xx) ==
    IF ufn
      THEN IF Len(oi) = 4
             THEN [NoRet EXCEPT !.kind = "tuple", !.tok = xx,
                     !.feats = <<Norm(t1, "norm1"), Norm(t2, "norm2"),
                                 Norm(t3, "norm3"), Norm(t4, "norm4")>>]
             ELSE [NoRet EXCEPT !.kind = "list",
                     !.feats = <<Norm(t2, "norm2"), Norm(t3, "norm3"), Norm(t4, "norm4")>>]
      ELSE IF t1.bound
             THEN [NoRet EXCEPT !.kind = IF ofo THEN "list" ELSE "tuple",
                     !.tok = IF ofo THEN NoX ELSE xx,
                     !.feats = <<Float(t1), Float(t2), Float(t3), Float(t4)>>]
             ELSE [NoRet EXCEPT !.kind = "raise", !.err = "UnboundLocalError"]
FinalOutputByLevels(ufn, oi, ofo, t1, t2, t3, t4, xx) ==
    IF ufn
      THEN IF Len(oi) = 4
             THEN [NoRet EXCEPT !.kind = IF ofo THEN "list" ELSE "tuple",
                     !.tok = IF ofo THEN NoX ELSE xx,
                     !.feats = <<Norm(t1, "norm1"), Norm(t2, "norm2"),
                                 Norm(t3, "norm3"), Norm(t4, "norm4")>>]
             ELSE [NoRet EXCEPT !.kind = "list",
                     !.feats = <<Norm(t2, "norm2"), Norm(t3, "norm3"), Norm(t4, "norm4")>>]
      ELSE [NoRet EXCEPT !.kind = "list",
              !.feats = <<Float(t2), Float(t3), Float(t4)>>]
FinalOutput(ufn, oi, ofo, t1, t2, t3, t4, xx) ==
    IF ufn
      THEN IF Len(oi) = 4
             THEN [NoRet EXCEPT !.kind = IF ofo THEN "list" ELSE "tuple",
                     !.tok = IF ofo THEN NoX ELSE xx,
                     !.feats = <<Norm(t1, "norm1"), Norm(t2, "norm2"),
                                 Norm(t3, "norm3"), Norm(t4, "norm4")>>]
             ELSE [NoRet EXCEPT !.kind = "list",
                     !.feats = <<Norm(t2, "norm2"), Norm(t3, "norm3"), Norm(t4, "norm4")>>]
      ELSE IF t1.bound
             THEN [NoRet EXCEPT !.kind = "list",
                     !.feats = <<Float(t1), Float(t2), Float(t3), Float(t4)>>]
             ELSE [NoRet EXCEPT !.kind = "raise", !.err = "UnboundLocalError"]

\* lines 146-164
Output ==
    /\ pc = "out"
    /\ ret' = FinalOutput(use_final_norm, out_indices, only_feat_out, c1, c2, c3, c4, x)
    /\ invoked' = invoked \cup NormsUsed(use_final_norm, out_indices)
    /\ pc' = IF ret'.kind = "raise" THEN "raised" ELSE "returned"
    /\ UNCHANGED <<cfgvars, datasets, x, deform, spm_out, c1, c2, c3, c4, c, H, W, bs, i,
                   handed, blockio>>

\* ---------------------------------------------------------------- specifications
Init ==
    /\ pc = "new"
    /\ num_layers = 0
    /\ interaction_indexes = <<>>
    /\ add_vit_feature = FALSE
    /\ out_indices = <<>>
    /\ use_final_norm = FALSE
    /\ only_feat_out = FALSE
    /\ modules = {}
    /\ datasets = <<>>
    /\ x = NoX
    /\ deform = <<>>
    /\ spm_out = <<>>
    /\ c1 = NoTensor /\ c2 = NoTensor /\ c3 = NoTensor /\ c4 = NoTensor
    /\ c = <<>>
    /\ H = 0 /\ W = 0 /\ bs = 0
    /\ i = 0
    /\ ret = NoRet
    /\ invoked = {}
    /\ handed = <<>>
    /\ blockio = <<>>

Forward ==
    \/ Call
    \/ Consolidate
    \/ DeformInputs
    \/ Spm
    \/ EmbedCat
    \/ PatchEmbed
    \/ Interact
    \/ LoopExit
    \/ SplitReshape
    \/ UpAdd
    \/ Fusion
    \/ Output

Next == Construct \/ Forward
Spec == Init /\ [][Next]_vars

\* Any interaction_indexes, default flags.
NextIdx == ConstructAny \/ Forward
SpecIdx == Init /\ [][NextIdx]_vars

\* ---------------------------------------------------------------- the split alone
\* Concatenation and split applied to level sequences of any lengths, with no
\* arithmetic between them.
InitSplit ==
    /\ pc = "cat"
    /\ num_layers = 0
    /\ interaction_indexes = <<>>
    /\ add_vit_feature = FALSE
    /\ out_indices = <<1, 2, 3>>
    /\ use_final_norm = FALSE
    /\ only_feat_out = FALSE
    /\ modules = {}
    /\ datasets = <<1>>
    /\ x = NoX
    /\ deform = <<>>
    /\ \E n2 \in 0..MaxLen, n3 \in 0..MaxLen, n4 \in 0..MaxLen :
        /\ c2 = Flat(2, 1, n2)
        /\ c3 = Flat(3, 1, n3)
        /\ c4 = Flat(4, 1, n4)
    /\ spm_out = <<c2, c3, c4>>
    /\ c1 = NoTensor
    /\ c = <<>>
    /\ H = 0 /\ W = 0 /\ bs = 0
    /\ i = 0
    /\ ret = NoRet
    /\ invoked = {}
    /\ handed = <<>>
    /\ blockio = <<>>

\* line 113
CatLevels ==
    /\ pc = "cat"
    /\ c' = Cat(c2, c3, c4)
    /\ pc' = "slice"
    /\ UNCHANGED <<cfgvars, datasets, x, deform, spm_out, c1, c2, c3, c4, H, W, bs, i, ret,
                   invoked, handed, blockio>>

\* lines 123-125
SliceLevels ==
    /\ pc = "slice"
    /\ LET s == SplitC(c, c2.seq, c3.seq) IN
        /\ c2' = [c2 EXCEPT !.seq = s[1], !.shape = <<c2.shape[1], Len(s[1])>>]
        /\ c3' = [c3 EXCEPT !.seq = s[2], !.shape = <<c2.shape[1], Len(s[2])>>]
        /\ c4' = [c4 EXCEPT !.seq = s[3], !.shape = <<c2.shape[1], Len(s[3])>>]
    /\ pc' = "sliced"
    /\ UNCHANGED <<cfgvars, datasets, x, deform, spm_out, c1, c, H, W, bs, i, ret,
                   invoked, handed, blockio>>

NextSplit == CatLevels \/ SliceLevels
SpecSplit == InitSplit /\ [][NextSplit]_vars

\* ---------------------------------------------------------------- properties
FourLevels == Len(out_indices) = 4
NormNames == {"norm1", "norm2", "norm3", "norm4"}
HasNorm(t) == \E k \in 1..Len(t.terms) : t.terms[k] \in NormNames

\* C1 as stated: a returning forward gives the bare feature list when
\* only_feat_out is set and the pair (feature list, token stream) when it is not.
C1_FlagSelectsReturn ==
    pc = "returned" =>
        /\ only_feat_out => (ret.kind = "list" /\ ret.tok = NoX)
        /\ ~only_feat_out => (ret.kind = "tuple" /\ ret.tok = x)

\* C1 amended: only_feat_out selects between list and pair only with 4 levels
\* and final normalization; every other returning configuration gives the bare
\* list whatever the flag.
C1_FlagSelectsReturnFourNorm ==
    pc = "returned" =>
        IF FourLevels /\ use_final_norm
          THEN /\ only_feat_out => (ret.kind = "list" /\ ret.tok = NoX)
               /\ ~only_feat_out => (ret.kind = "tuple" /\ ret.tok = x)
          ELSE ret.kind = "list" /\ ret.tok = NoX

C1_Witness ==
    /\ pc = "returned" /\ ~only_feat_out /\ FourLevels /\ use_final_norm
    /\ ret.kind = "tuple"

\* C2: no adapter exists with final normalization off and other than 4 levels.
C2_RejectsThreeLevelNoNorm ==
    pc # "new" => ~(~use_final_norm /\ Len(out_indices) # 4)

\* C3: forward never returns under a malformed interaction_indexes.
C3_MalformedIndexesFail ==
    pc = "returned" => IsPartition(interaction_indexes, num_layers)

\* C4: with 4 levels and no final normalization forward returns the bare list
\* [C1, C2, C3, C4], none of them normalized, whatever only_feat_out is.
C4_NoNormReturnsFour ==
    (pc = "returned" /\ FourLevels /\ ~use_final_norm) =>
        /\ ret.kind = "list" /\ ret.tok = NoX
        /\ Len(ret.feats) = 4
        /\ ret.feats[1].seq = <<>> /\ ret.feats[1].shape = <<bs, 4 * H, 4 * W>>
        /\ \A k \in 2..4 :
            /\ ret.feats[k].seq # <<>>
            /\ \A j \in 1..Len(ret.feats[k].seq) : ret.feats[k].seq[j][1] = k
        /\ \A k \in 1..4 : ~HasNorm(ret.feats[k])

C4_Witness ==
    /\ pc = "returned" /\ FourLevels /\ ~use_final_norm /\ ~only_feat_out
    /\ Len(ret.feats) = 4

\* C5: for every token grid every reshape succeeds and forward returns one map
\* per configured level with the input's batch size, C1 = (4H, 4W),
\* C2 = (2H, 2W), C3 = (H, W), C4 = (H/2, W/2).
C5_Resolutions ==
    /\ ret.err # "view"
    /\ pc \in {"returned", "raised"} =>
        /\ pc = "returned"
        /\ Len(ret.feats) = Len(out_indices)
        /\ LET off == Len(ret.feats) - 3
               f(k) == ret.feats[k - 1 + off]
           IN /\ \A k \in 1..Len(ret.feats) : ret.feats[k].shape[1] = SumSeq(datasets)
              /\ f(2).shape[2] = 2 * H /\ f(2).shape[3] = 2 * W
              /\ f(3).shape[2] = H /\ f(3).shape[3] = W
              /\ 2 * f(4).shape[2] = H /\ 2 * f(4).shape[3] = W
              /\ off = 1 => (f(1).shape[2] = 4 * H /\ f(1).shape[3] = 4 * W)

\* C6: concatenating C2, C3, C4 and slicing as forward does gives back the
\* three sequences, lengths and contents.
C6_SplitRoundTrip ==
    pc = "sliced" =>
        /\ c2.seq = spm_out[1].seq
        /\ c3.seq = spm_out[2].seq
        /\ c4.seq = spm_out[3].seq

C6_Witness ==
    pc = "sliced" /\ Len(c2.seq) = 2 /\ Len(c3.seq) = 1 /\ Len(c4.seq) = 3

\* C7: the stages run once each in their fixed order, the loop running block
\* after block, and every block receives the pair the block before it returned
\* (block 0: the patch embedding and the concatenated level-embedded levels).
Stages == <<"consolidate", "deform", "spm", "embed", "patch", "loop", "split", "up",
            "fuse", "out", "returned">>
Rank(p) == CHOOSE k \in 1..Len(Stages) : Stages[k] = p
StageOrder ==
    \/ pc = "new" /\ pc' = "ready"
    \/ pc \in {"ready", "returned", "raised"} /\ pc' = "consolidate"
    \/ pc = "loop" /\ pc' = "loop" /\ i' = i + 1 /\ Len(blockio') = i'
    \/ pc \in {"split", "up", "out"} /\ pc' = "raised"
    \/ /\ pc \notin {"new", "ready", "returned", "raised"}
       /\ pc' \notin {"new", "ready", "raised"}
       /\ Rank(pc') = Rank(pc) + 1
BlockChain ==
    \A k \in 1..Len(blockio) :
        IF k = 1
          THEN LET n == Len(spm_out)
                   e == add_level_embed(spm_out[n - 2], spm_out[n - 1], spm_out[n])
               IN /\ blockio[k].xin = [form |-> "tokens", bs |-> bs, gh |-> H, gw |-> W,
                                        hist |-> <<>>]
                  /\ blockio[k].cin = e[1].seq \o e[2].seq \o e[3].seq
          ELSE /\ blockio[k].xin = blockio[k - 1].xout
               /\ blockio[k].cin = blockio[k - 1].cout
C7_StagesInOrder == [][StageOrder /\ BlockChain']_vars

C7_Witness == pc = "returned" /\ Len(blockio) = 2

\* C8: over one forward the slices handed to the blocks are the layer stack,
\* every layer once and in ascending order.
RECURSIVE Flatten(_)
Flatten(ss) == IF ss = <<>> THEN <<>> ELSE Head(ss) \o Flatten(Tail(ss))
C8_SlicesPartitionLayers ==
    pc \in {"split", "up", "fuse", "out", "returned"} => Flatten(handed) = layers

\* C9: entering the return stage, without add_vit_feature the levels are the
\* split and reshaped segments (C1 the reconstructed one) with nothing added;
\* with it each produced level carries exactly one token term, of scale
\* 4, 2, 1, 0.5 for C1, C2, C3, C4.
C9_FusionFrame ==
    pc = "out" =>
        /\ c2.seq \o c3.seq \o c4.seq = c
        /\ <<c2.shape, c3.shape, c4.shape>> =
               <<<<bs, 2 * H, 2 * W>>, <<bs, H, W>>, <<bs, H \div 2, W \div 2>>>>
        /\ IF add_vit_feature
             THEN /\ c2.terms = <<"vit*2">> /\ c3.terms = <<"vit*1">>
                  /\ c4.terms = <<"vit*0.5">>
                  /\ c1.terms = IF FourLevels THEN <<"up(c2)", "vit*4">> ELSE <<>>
             ELSE /\ c2.terms = <<>> /\ c3.terms = <<>> /\ c4.terms = <<>>
                  /\ c1.terms = IF FourLevels THEN <<"up(c2)">> ELSE <<>>

C9_Witness == pc = "out" /\ ~add_vit_feature /\ FourLevels /\ c1.terms = <<"up(c2)">>

\* C10: every optional module forward calls was allocated by the constructor:
\* up is called only with 4 levels and allocated exactly then, norm1 only with
\* 4 levels and final normalization and allocated exactly then, norm2..norm4
\* only with final normalization and allocated exactly then.
C10_InvokedAllocated ==
    pc # "new" =>
        /\ invoked \subseteq modules
        /\ ("up" \in invoked => FourLevels) /\ ("up" \in modules <=> FourLevels)
        /\ ("norm1" \in invoked => (FourLevels /\ use_final_norm))
        /\ ("norm1" \in modules <=> (FourLevels /\ use_final_norm))
        /\ \A m \in {"norm2", "norm3", "norm4"} :
            /\ m \in invoked => use_final_norm
            /\ m \in modules <=> use_final_norm

C10_Witness == pc = "returned" /\ "norm1" \in invoked /\ "up" \in invoked

====
